---- MODULE Spec2Model ----
(***************************************************************************)
(* Media processing job pipeline of the AI media assistant backend:        *)
(*   - the upload / reprocess / delete endpoints and the background job    *)
(*     process_media_file_async (endpoints/media.py),                      *)
(*   - the extraction engine pool MultimodalProcessor                      *)
(*     (services/multimodal_processor.py),                                 *)
(*   - the chunk/embed/store pipeline EmbeddingService                     *)
(*     (services/llm_service.py).                                          *)
(*                                                                         *)
(* Texts are sequences of characters; Python's None is the string "None"   *)
(* for nullable string columns and NullText for the nullable text column.  *)
(* A Python call that may raise is an operator returning a record with an  *)
(* exc field: NoExc when it returned, str(e) when it raised.               *)
(***************************************************************************)
EXTENDS Integers, Sequences, FiniteSets, TLC

VARIABLES media, tasks, collection, ext

vars == <<media, tasks, collection, ext>>

\* ------------------------------------------------------------------ bounds
MaxMedia == 1
MaxTasks == 2
MaxFrames == 2
MaxConf == 2
MaxIndex == 3
MaxTopK == 3
MaxChunks == 2

\* ------------------------------------------------------------- basic values
None == "None"
NoExc == "NoExc"
NullText == <<"NULL">>

PENDING == "pending"
PROCESSING == "processing"
COMPLETED == "completed"
FAILED == "failed"

ProcessingStatus == {PENDING, PROCESSING, COMPLETED, FAILED}

MediaKinds == {"image", "video", "audio"}

\* ------------------------------------------------------------ text helpers
IsBlank(s) == \A i \in 1..Len(s) : s[i] = " "

RECURSIVE LStrip(_)
LStrip(s) == IF s # <<>> /\ Head(s) = " " THEN LStrip(Tail(s)) ELSE s

RECURSIVE RStrip(_)
RStrip(s) ==
    IF s # <<>> /\ s[Len(s)] = " " THEN RStrip(SubSeq(s, 1, Len(s) - 1)) ELSE s

Strip(s) == RStrip(LStrip(s))

RECURSIVE Join(_, _)
Join(sep, parts) ==
    IF parts = <<>> THEN <<>>
    ELSE IF Len(parts) = 1 THEN parts[1]
    ELSE parts[1] \o sep \o Join(sep, Tail(parts))

\* ------------------------------------------------- extraction engine pool
\* An engine invocation is decided by the environment: it raises, or it
\* returns a text with a confidence in 0..MaxConf (confidence / MaxConf).
\* str(e) of the exception a step raises is named after the step.
ExcMsg(step) == step

\* Auxiliary steps of the extraction, each of which the environment may make
\* raise: object detection, quality analysis, scene analysis, key frame
\* extraction, writing the audio track of a video, acoustic analysis,
\* speaker analysis, sentiment analysis.
AuxSteps ==
    {"objects", "quality", "scene", "frames", "audio_extract", "acoustic",
     "speaker", "sentiment"}

\* Mutant of EasyOcrResult: a failed engine reports full confidence.
EasyOcrResultFullConfidence(o) ==
    IF o.raises
    THEN [text |-> <<>>, confidence |-> MaxConf, error |-> "EasyOCR failed"]
    ELSE [text |-> o.text, confidence |-> o.conf, error |-> None]

\* EasyOCR branch of _extract_text_from_image.
EasyOcrResult(o) ==
    IF o.raises
    THEN [text |-> <<>>, confidence |-> 0, error |-> "EasyOCR failed"]
    ELSE [text |-> o.text, confidence |-> o.conf, error |-> None]

\* Tesseract branch of _extract_text_from_image: the text is stripped.
TesseractResult(o) ==
    IF o.raises
    THEN [text |-> <<>>, confidence |-> 0, error |-> "Tesseract failed"]
    ELSE [text |-> Strip(o.text), confidence |-> o.conf, error |-> None]

\* Mutant of BestResult: the last element of maximal key.
BestResultLast(rs) ==
    rs[CHOOSE i \in 1..Len(rs) :
          /\ \A j \in 1..Len(rs) : rs[j].confidence <= rs[i].confidence
          /\ \A j \in (i + 1)..Len(rs) : rs[j].confidence < rs[i].confidence]

\* Python's max(list, key=confidence): the first element of maximal key.
BestResult(rs) ==
    rs[CHOOSE i \in 1..Len(rs) :
          /\ \A j \in 1..Len(rs) : rs[j].confidence <= rs[i].confidence
          /\ \A j \in 1..(i - 1) : rs[j].confidence < rs[i].confidence]

ExtractTextFromImage(img) ==
    LET e == EasyOcrResult(img.easy)
        t == TesseractResult(img.tess)
        best == BestResult(<<e, t>>)
    IN [easyocr |-> e, tesseract |-> t,
        text |-> best.text, confidence |-> best.confidence]

\* _transcribe_audio: every exception is caught and reported in the result.
TranscribeAudio(o) ==
    IF o.raises
    THEN [text |-> <<>>, error |-> "Whisper transcription failed"]
    ELSE [text |-> o.text, error |-> None]

\* _analyze_text: the keys of the analysis it returns.
AnalyzeText(text, fails) ==
    IF IsBlank(text) THEN {}
    ELSE {"stats"} \cup (IF "sentiment" \in fails THEN {} ELSE {"sentiment"})

\* The results dictionary: keys holds the keys present, the other fields
\* their values (ocr and transcript are sequences of at most one element).
EmptyResults ==
    [keys |-> {}, error |-> None, text |-> <<>>, ocr |-> <<>>,
     frame_ocr |-> <<>>, transcript |-> <<>>, text_analysis |-> {}]

Raise(msg) == [exc |-> msg, results |-> EmptyResults]

Return(results) == [exc |-> NoExc, results |-> results]

ProcessImage(env) ==
    IF ~env.opens THEN Raise("Failed to load image")
    ELSE LET ocr == ExtractTextFromImage(env.frames[1]) IN
         IF "objects" \in env.fails THEN Raise(ExcMsg("objects"))
         ELSE IF "quality" \in env.fails THEN Raise(ExcMsg("quality"))
         ELSE IF "scene" \in env.fails THEN Raise(ExcMsg("scene"))
         ELSE Return([EmptyResults EXCEPT
                  !.keys = {"image_info", "ocr", "objects", "quality",
                            "scene", "text"},
                  !.ocr = <<ocr>>,
                  !.text = ocr.text])

FrameOcr(frames) ==
    [i \in 1..Len(frames) |->
        LET frame_ocr == ExtractTextFromImage(frames[i])
        IN [timestamp |-> i, text |-> frame_ocr.text,
            confidence |-> frame_ocr.confidence]]

\* Mutant of NonBlankTexts: every frame text is kept.
AllTexts(frame_texts) == [i \in 1..Len(frame_texts) |-> frame_texts[i].text]

\* [frame_text["text"] for frame_text in frame_texts if text.strip()]
RECURSIVE NonBlankTexts(_)
NonBlankTexts(frame_texts) ==
    IF frame_texts = <<>> THEN <<>>
    ELSE (IF IsBlank(Head(frame_texts).text) THEN <<>>
          ELSE <<Head(frame_texts).text>>)
         \o NonBlankTexts(Tail(frame_texts))

ProcessVideo(env) ==
    IF ~env.opens THEN Raise(ExcMsg("video_open"))
    ELSE IF "frames" \in env.fails THEN Raise(ExcMsg("frames"))
    ELSE LET frame_texts == FrameOcr(env.frames) IN
         IF env.hasAudio /\ "audio_extract" \in env.fails
         THEN Raise(ExcMsg("audio_extract"))
         ELSE LET transcript == TranscribeAudio(env.transcript)
                  all_text == (IF env.hasAudio THEN <<transcript.text>>
                               ELSE <<>>)
                              \o NonBlankTexts(frame_texts)
              IN Return([EmptyResults EXCEPT
                     !.keys = {"video_info", "frames", "frame_ocr", "text"}
                              \cup (IF env.hasAudio
                                    THEN {"transcript", "audio_analysis"}
                                    ELSE {}),
                     !.frame_ocr = frame_texts,
                     !.transcript = IF env.hasAudio THEN <<transcript>>
                                    ELSE <<>>,
                     !.text = Join(<<" ">>, all_text)])

\* An audio file that cannot be decoded makes Whisper and librosa raise
\* inside _transcribe_audio, _analyze_audio and _analyze_speakers, each of
\* which catches the exception.
ProcessAudio(env) ==
    LET transcript ==
            TranscribeAudio([env.transcript EXCEPT
                !.raises = env.transcript.raises \/ ~env.opens])
    IN Return([EmptyResults EXCEPT
           !.keys = {"transcript", "audio_analysis", "speaker_analysis",
                     "text"},
           !.transcript = <<transcript>>,
           !.text = transcript.text])

\* MultimodalProcessor.process_media_file: never raises; an exception of
\* the per-kind pipeline leaves results = {} and sets results["error"].
ProcessMediaFile(media_type, env) ==
    LET r == IF media_type = "image" THEN ProcessImage(env)
             ELSE IF media_type = "video" THEN ProcessVideo(env)
             ELSE IF media_type = "audio" THEN ProcessAudio(env)
             ELSE Return(EmptyResults)
    IN IF r.exc # NoExc
       THEN [EmptyResults EXCEPT !.keys = {"error"}, !.error = r.exc]
       ELSE IF "text" \in r.results.keys
       THEN [r.results EXCEPT
                !.keys = @ \cup {"text_analysis"},
                !.text_analysis = AnalyzeText(r.results.text, env.fails)]
       ELSE r.results

\* ------------------------------------------------ chunk / embed / store
CHUNK_SIZE == 1000

\* RecursiveCharacterTextSplitter.split_text for a text no longer than
\* CHUNK_SIZE: the pieces are merged back into one stripped chunk.
Split(text) ==
    IF Len(text) <= CHUNK_SIZE /\ ~IsBlank(text) THEN <<Strip(text)>>
    ELSE <<>>

\* Mutant of EmbedChunks: the computed fields win over the caller's.
RECURSIVE EmbedChunksComputedWins(_, _, _, _)
EmbedChunksComputedWins(chunks, i, text, metadata) ==
    IF chunks = <<>> THEN <<>>
    ELSE (IF IsBlank(Head(chunks)) THEN <<>>
          ELSE <<[text |-> Head(chunks),
                  metadata |-> [chunk_index |-> i,
                                chunk_size |-> Len(Head(chunks)),
                                original_length |-> Len(text)]
                               @@ metadata]>>)
         \o EmbedChunksComputedWins(Tail(chunks), i + 1, text, metadata)

\* The loop of create_embeddings. A dictionary is a function from its keys;
\* {computed fields, **metadata}: the caller's value wins on a common key.
RECURSIVE EmbedChunks(_, _, _, _)
EmbedChunks(chunks, i, text, metadata) ==
    IF chunks = <<>> THEN <<>>
    ELSE (IF IsBlank(Head(chunks)) THEN <<>>
          ELSE <<[text |-> Head(chunks),
                  metadata |-> metadata
                               @@ [chunk_index |-> i,
                                   chunk_size |-> Len(Head(chunks)),
                                   original_length |-> Len(text)]]>>)
         \o EmbedChunks(Tail(chunks), i + 1, text, metadata)

\* EmbeddingService.create_embeddings on a text for which split_text
\* returned chunks (chunk indexes are 0-based).
CreateEmbeddingsOf(text, chunks, metadata) ==
    IF IsBlank(text) THEN <<>>
    ELSE EmbedChunks(chunks, 0, text, metadata)

\* EmbeddingService.create_embeddings.
CreateEmbeddings(text, metadata) ==
    CreateEmbeddingsOf(text, Split(text), metadata)

\* ids = [f"{document_id}_{i}" for i in range(len(embeddings))]
ChunkId(document_id, i) == <<document_id, i>>

StoreIds(embeddings, document_id) ==
    [k \in 1..Len(embeddings) |-> ChunkId(document_id, k - 1)]

\* collection.add of the vector store: it raises and writes nothing, or it
\* writes the ids that are not stored yet. For ids that are already stored
\* the installed chromadb decides between the two: it raises, or it keeps
\* the stored records.
CollectionAdd(coll, ids, embeddings) ==
    LET fresh == {k \in 1..Len(ids) : ids[k] \notin DOMAIN coll}
        added == [id \in {ids[k] : k \in fresh} |->
                     LET k == CHOOSE k \in fresh : ids[k] = id
                     IN [text |-> embeddings[k].text,
                         metadata |-> embeddings[k].metadata]]
    IN {[exc |-> NoExc, coll |-> added @@ coll],
        [exc |-> "store_error", coll |-> coll]}

\* Mutant of StoreEmbeddings: an empty list is handed to the store too.
StoreEmbeddingsUnguarded(coll, embeddings, document_id) ==
    CollectionAdd(coll, StoreIds(embeddings, document_id), embeddings)

\* EmbeddingService.store_embeddings.
StoreEmbeddings(coll, embeddings, document_id) ==
    IF embeddings = <<>> THEN {[exc |-> NoExc, coll |-> coll]}
    ELSE CollectionAdd(coll, StoreIds(embeddings, document_id), embeddings)

MediaDocId(m) == <<"media", m>>

\* ------------------------------------------------------- persistence
MediaIds == 1..MaxMedia
TaskIds == DOMAIN tasks

Columns ==
    {"processing_status", "processing_error", "extracted_text", "metadata"}

\* The row upload_media_file inserts. The JSON column metadata is the empty
\* sequence when NULL and the one-element sequence of its value otherwise.
NewRow ==
    [processing_status |-> PENDING, processing_error |-> None,
     extracted_text |-> NullText, metadata |-> <<>>]

NoMedia == [state |-> "absent", media_type |-> "none", row |-> NewRow]

\* A session's flush: the UPDATE sets exactly the columns whose in-memory
\* value differs from the value the session loaded or last committed.
Dirty(snap, mem) == {c \in Columns : mem[c] # snap[c]}

Flush(row, snap, mem) ==
    [c \in Columns |-> IF c \in Dirty(snap, mem) THEN mem[c] ELSE row[c]]

\* The outcomes of session.commit() for one loaded object: the database
\* call fails, the UPDATE finds the row deleted, or the row is updated.
Commit(m, snap, mem) ==
    {[exc |-> "db_error", row |-> media[m].row]}
    \cup (IF media[m].state # "present" /\ Dirty(snap, mem) # {}
          THEN {[exc |-> "stale_row", row |-> media[m].row]}
          ELSE {[exc |-> NoExc, row |-> Flush(media[m].row, snap, mem)]})

\* ------------------------------------------------------------- inputs
\* What the environment decides for one extraction: whether the file can
\* be opened and decoded, the OCR engines' outcome per frame (an image is
\* one frame), whether a video has an audio track, the speech-to-text
\* outcome, and the auxiliary steps that raise.
EngineOutcomes(texts) ==
    {[raises |-> TRUE, text |-> <<>>, conf |-> 0]}
    \cup [raises : {FALSE}, text : texts, conf : 0..MaxConf]

Env(opens, frames, hasAudio, transcript, fails) ==
    [opens |-> opens, frames |-> frames, hasAudio |-> hasAudio,
     transcript |-> transcript, fails |-> fails]

Raises == [raises |-> TRUE, text |-> <<>>, conf |-> 0]

Reads(text, conf) == [raises |-> FALSE, text |-> text, conf |-> conf]

\* The extractions a background job meets: a file that cannot be opened, a
\* file without text, a file whose text every path reads as "a".
JobEnvs ==
    {Env(FALSE, <<[easy |-> Raises, tess |-> Raises]>>, FALSE, Raises, {}),
     Env(TRUE, <<[easy |-> Raises, tess |-> Raises]>>, FALSE, Raises, {}),
     Env(TRUE, <<[easy |-> Reads(<<"a">>, 1), tess |-> Raises]>>, FALSE,
         Reads(<<"a">>, 1), {})}

\* --------------------------------------------------------------- upload
MAX_FILE_SIZE == 52428800

SUPPORTED_IMAGE_FORMATS == {"jpg", "jpeg", "png", "gif", "bmp", "tiff"}
SUPPORTED_VIDEO_FORMATS == {"mp4", "avi", "mov", "wmv", "flv", "webm"}
SUPPORTED_AUDIO_FORMATS == {"mp3", "wav", "flac", "ogg", "m4a"}

DetermineMediaType(file_extension) ==
    IF file_extension \in SUPPORTED_IMAGE_FORMATS THEN "image"
    ELSE IF file_extension \in SUPPORTED_VIDEO_FORMATS THEN "video"
    ELSE IF file_extension \in SUPPORTED_AUDIO_FORMATS THEN "audio"
    ELSE None

UploadSizes == {MAX_FILE_SIZE, MAX_FILE_SIZE + 1}
UploadExtensions == {"png", "mp3", "txt"}

\* Mutant of UploadValidation: the format is not checked.
UploadValidationSizeOnly(size, file_extension) ==
    IF size > MAX_FILE_SIZE THEN 413 ELSE 200

\* The HTTP status upload_media_file answers before it saves anything.
UploadValidation(size, file_extension) ==
    IF size > MAX_FILE_SIZE THEN 413
    ELSE IF DetermineMediaType(file_extension) = None THEN 400
    ELSE 200

\* ----------------------------------------------------------------- tasks
\* A task is one admitted HTTP request together with the background task it
\* adds, the t-th request taking slot t: pc is the await at which it
\* stands, snap is what its session loaded or last committed for the
\* record, mem the attribute values it holds in memory, exc the str(e) its
\* except clause caught. A task ends done, or swallowed when its failure
\* handler failed itself. handoff records that the job's extraction
\* succeeded and its embedding hand-off raised.
Done ==
    [pc |-> "done", file_id |-> 0, snap |-> NewRow, mem |-> NewRow,
     exc |-> NoExc, handoff |-> FALSE]

Queued(m) == [Done EXCEPT !.pc = "queued", !.file_id = m]

\* Mutant of Handler: the except clause logs and records nothing.
HandlerLogsOnly(task, msg) == Done

\* except Exception as e: the handler starts with str(e).
Handler(task, msg) ==
    [Done EXCEPT !.pc = "h_get", !.file_id = task.file_id, !.exc = msg,
                 !.handoff = task.handoff]

New == [Done EXCEPT !.pc = "new"]

FreeSlot(t) ==
    /\ tasks[t].pc = "new"
    /\ \A u \in 1..(t - 1) : tasks[u].pc # "new"

Terminal == {COMPLETED, FAILED}

\* except Exception: pass. The job ends, its record as it was.
Swallowed(task) == [Done EXCEPT !.pc = "swallowed", !.file_id = task.file_id]

Init ==
    /\ media = [m \in MediaIds |-> NoMedia]
    /\ tasks = [t \in 1..MaxTasks |-> New]
    /\ collection = <<>>
    /\ ext = [op |-> "none"]

\* upload_media_file: a rejected upload changes nothing; an accepted one
\* inserts the record with the next id and adds the background task.
Upload(t) ==
    /\ FreeSlot(t)
    /\ \E m \in MediaIds, size \in UploadSizes, e \in UploadExtensions :
          /\ media[m].state = "absent"
          /\ \A k \in 1..(m - 1) : media[k].state # "absent"
          /\ IF UploadValidation(size, e) = 200
             THEN /\ media' = [media EXCEPT ![m] =
                         [state |-> "present",
                          media_type |-> DetermineMediaType(e),
                          row |-> NewRow]]
                  /\ tasks' = [tasks EXCEPT ![t] = Queued(m)]
             ELSE UNCHANGED <<media, tasks>>
    /\ UNCHANGED <<collection, ext>>

\* reprocess_media_file up to its commit: db.get, 404 if absent, then the
\* status and error are set in memory.
ReprocessGet(t) ==
    /\ FreeSlot(t)
    /\ \E m \in MediaIds :
          IF media[m].state = "present"
          THEN tasks' = [tasks EXCEPT ![t] =
                   [Done EXCEPT
                       !.pc = "rp_commit", !.file_id = m,
                       !.snap = media[m].row,
                       !.mem = [media[m].row EXCEPT
                                   !.processing_status = PENDING,
                                   !.processing_error = None]]]
          ELSE UNCHANGED tasks
    /\ UNCHANGED <<media, collection, ext>>

\* reprocess_media_file from its commit: the commit, then add_task.
ReprocessCommit(t) ==
    /\ tasks[t].pc = "rp_commit"
    /\ LET m == tasks[t].file_id IN
       \E o \in Commit(m, tasks[t].snap, tasks[t].mem) :
          IF o.exc # NoExc
          THEN /\ tasks' = [tasks EXCEPT ![t] = Done]
               /\ UNCHANGED media
          ELSE /\ media' = [media EXCEPT ![m].row = o.row]
               /\ tasks' = [tasks EXCEPT ![t] = Queued(m)]
    /\ UNCHANGED <<collection, ext>>

\* delete_media_file.
Delete(m) ==
    /\ media[m].state = "present"
    /\ media' = [media EXCEPT ![m].state = "deleted"]
    /\ UNCHANGED <<tasks, collection, ext>>

\* process_media_file_async, lines 284-290: the session is opened and the
\* record loaded; the job returns if there is none.
JobGet(t) ==
    /\ tasks[t].pc = "queued"
    /\ LET m == tasks[t].file_id IN
          \/ tasks' = [tasks EXCEPT ![t] = Handler(tasks[t], "db_error")]
          \/ /\ media[m].state # "present"
             /\ tasks' = [tasks EXCEPT ![t] = Done]
          \/ /\ media[m].state = "present"
             /\ tasks' = [tasks EXCEPT ![t] =
                    [@ EXCEPT !.pc = "begin",
                              !.snap = media[m].row,
                              !.mem = [media[m].row EXCEPT
                                  !.processing_status = PROCESSING]]]
    /\ UNCHANGED <<media, collection, ext>>

\* line 291: the commit of status PROCESSING.
JobBegin(t) ==
    /\ tasks[t].pc = "begin"
    /\ LET m == tasks[t].file_id IN
       \E o \in Commit(m, tasks[t].snap, tasks[t].mem) :
          IF o.exc # NoExc
          THEN /\ tasks' = [tasks EXCEPT ![t] = Handler(tasks[t], o.exc)]
               /\ UNCHANGED media
          ELSE /\ media' = [media EXCEPT ![m].row = o.row]
               /\ tasks' = [tasks EXCEPT ![t] =
                      [@ EXCEPT !.pc = "process", !.snap = tasks[t].mem]]
    /\ UNCHANGED <<collection, ext>>

\* lines 297-305: what the job sets on its record for the results.
JobResult(mem, results) ==
    IF "error" \in results.keys
    THEN [mem EXCEPT !.processing_status = FAILED,
                     !.processing_error = results.error]
    ELSE [mem EXCEPT !.processing_status = COMPLETED,
                     !.extracted_text =
                         IF "text" \in results.keys THEN results.text
                         ELSE <<>>,
                     !.metadata = <<results>>]

\* lines 294-314: the processor is built, the file extracted, the result
\* set on the record and, for a text, embedded and stored. Building the
\* processor or the embedding service and encoding a chunk load and run
\* models, and may raise.
JobProcess(t) ==
    /\ tasks[t].pc = "process"
    /\ LET m == tasks[t].file_id IN
          \/ /\ tasks' = [tasks EXCEPT ![t] = Handler(tasks[t], "model_error")]
             /\ UNCHANGED collection
          \/ \E env \in JobEnvs :
                LET results == ProcessMediaFile(media[m].media_type, env)
                    mem == JobResult(tasks[t].mem, results)
                    job == tasks[t]
                    text == mem.extracted_text
                    embeddings ==
                        CreateEmbeddings(text,
                            [media_file_id |-> m,
                             media_type |-> media[m].media_type])
                IN IF "error" \in results.keys \/ text = <<>>
                   THEN /\ tasks' = [tasks EXCEPT ![t] =
                               [job EXCEPT !.pc = "commit", !.mem = mem]]
                        /\ UNCHANGED collection
                   ELSE \/ /\ tasks' = [tasks EXCEPT ![t] =
                                  Handler([job EXCEPT !.handoff = TRUE],
                                          "model_error")]
                           /\ UNCHANGED collection
                        \/ \E o \in StoreEmbeddings(collection, embeddings,
                                                   MediaDocId(m)) :
                              /\ collection' = o.coll
                              /\ tasks' = [tasks EXCEPT ![t] =
                                     IF o.exc # NoExc
                                     THEN Handler([job EXCEPT
                                                      !.handoff = TRUE],
                                                  o.exc)
                                     ELSE [job EXCEPT !.pc = "commit",
                                                      !.mem = mem]]
    /\ UNCHANGED <<media, ext>>

\* line 316: the commit of the job's result.
JobCommit(t) ==
    /\ tasks[t].pc = "commit"
    /\ LET m == tasks[t].file_id IN
       \E o \in Commit(m, tasks[t].snap, tasks[t].mem) :
          IF o.exc # NoExc
          THEN /\ tasks' = [tasks EXCEPT ![t] = Handler(tasks[t], o.exc)]
               /\ UNCHANGED media
          ELSE /\ media' = [media EXCEPT ![m].row = o.row]
               /\ tasks' = [tasks EXCEPT ![t] = Done]
    /\ UNCHANGED <<collection, ext>>

\* lines 325-330: the except clause opens a session of its own and loads
\* the record; an exception here is swallowed (lines 332-333).
HandlerGet(t) ==
    /\ tasks[t].pc = "h_get"
    /\ LET m == tasks[t].file_id IN
          \/ tasks' = [tasks EXCEPT ![t] = Swallowed(tasks[t])]
          \/ /\ media[m].state # "present"
             /\ tasks' = [tasks EXCEPT ![t] = Done]
          \/ /\ media[m].state = "present"
             /\ tasks' = [tasks EXCEPT ![t] =
                    [@ EXCEPT !.pc = "h_commit",
                              !.snap = media[m].row,
                              !.mem = [media[m].row EXCEPT
                                  !.processing_status = FAILED,
                                  !.processing_error = tasks[t].exc]]]
    /\ UNCHANGED <<media, collection, ext>>

\* line 331: the handler's commit; an exception is swallowed.
HandlerCommit(t) ==
    /\ tasks[t].pc = "h_commit"
    /\ LET m == tasks[t].file_id IN
       \E o \in Commit(m, tasks[t].snap, tasks[t].mem) :
          IF o.exc # NoExc
          THEN /\ tasks' = [tasks EXCEPT ![t] = Swallowed(tasks[t])]
               /\ UNCHANGED media
          ELSE /\ media' = [media EXCEPT ![m].row = o.row]
               /\ tasks' = [tasks EXCEPT ![t] = Done]
    /\ UNCHANGED <<collection, ext>>

Next ==
    \/ \E t \in TaskIds : Upload(t)
    \/ \E t \in TaskIds : ReprocessGet(t)
    \/ \E t \in TaskIds : ReprocessCommit(t)
    \/ \E t \in TaskIds : JobGet(t)
    \/ \E t \in TaskIds : JobBegin(t)
    \/ \E t \in TaskIds : JobProcess(t)
    \/ \E t \in TaskIds : JobCommit(t)
    \/ \E t \in TaskIds : HandlerGet(t)
    \/ \E t \in TaskIds : HandlerCommit(t)
    \/ \E m \in MediaIds : Delete(m)

Spec == Init /\ [][Next]_vars

\* The same system with one more request admitted, for the races that take
\* three overlapping requests for one record.
RaceInit ==
    /\ media = [m \in MediaIds |-> NoMedia]
    /\ tasks = [t \in 1..(MaxTasks + 1) |-> New]
    /\ collection = <<>>
    /\ ext = [op |-> "none"]

RaceSpec == RaceInit /\ [][Next]_vars

\* ------------------------------------------- extraction on given inputs
\* One call of process_media_file, or of _extract_text_from_image, on
\* inputs drawn from the sets below; ext records the call and its result.
OcrTexts == {<<>>, <<"a">>, <<" ">>, <<"b", " ">>}

Images == [easy : EngineOutcomes(OcrTexts), tess : EngineOutcomes(OcrTexts)]

\* The frames of a video: up to MaxFrames sampled images.
FrameImages ==
    {[easy |-> Raises, tess |-> Raises],
     [easy |-> Reads(<<"a">>, 1), tess |-> Reads(<<" ">>, 2)],
     [easy |-> Reads(<<" ">>, 1), tess |-> Reads(<<"b", " ">>, 1)],
     [easy |-> Reads(<<"a">>, 2), tess |-> Raises]}

FrameSeqs == UNION {[1..n -> FrameImages] : n \in 1..MaxFrames}

Transcripts == {Raises, Reads(<<>>, 0), Reads(<<"b">>, 0)}

ExtEnvs(media_type) ==
    IF media_type = "image"
    THEN {Env(opens, <<img>>, FALSE, Raises, fails) :
             opens \in BOOLEAN, img \in Images,
             fails \in SUBSET {"objects", "quality", "scene", "sentiment"}}
    ELSE IF media_type = "video"
    THEN {Env(opens, frames, hasAudio, transcript, fails) :
             opens \in BOOLEAN, frames \in FrameSeqs, hasAudio \in BOOLEAN,
             transcript \in Transcripts,
             fails \in SUBSET {"frames", "audio_extract", "acoustic",
                               "sentiment"}}
    ELSE {Env(opens, <<>>, FALSE, transcript, fails) :
             opens \in BOOLEAN, transcript \in Transcripts,
             fails \in SUBSET {"acoustic", "speaker", "sentiment"}}

Extract(media_type) ==
    /\ ext.op = "none"
    /\ \E env \in ExtEnvs(media_type) :
          ext' = [op |-> "extract", media_type |-> media_type, env |-> env,
                  results |-> ProcessMediaFile(media_type, env)]
    /\ UNCHANGED <<media, tasks, collection>>

OcrImage ==
    /\ ext.op = "none"
    /\ \E img \in Images :
          ext' = [op |-> "ocr", img |-> img,
                  results |-> ExtractTextFromImage(img)]
    /\ UNCHANGED <<media, tasks, collection>>

ExtractNext ==
    \/ Extract("image")
    \/ Extract("video")
    \/ Extract("audio")
    \/ OcrImage

ExtractSpec == Init /\ [][ExtractNext]_vars

\* ------------------------------------------------- retrieval and RAG
\* One call of similarity_search or of rag_query on inputs drawn from the
\* sets below. The vector store holds chunks 1..n in insertion order; chunk
\* k has text k and metadata k, and index[k] is its cosine distance to the
\* query, in 0..MaxDistance.
MaxDistance == 2

\* Mutant of Similarity: the distance is reported as it is.
SimilarityIsDistance(distance) == distance

\* "similarity": 1 - results["distances"][0][i]
Similarity(distance) == 1 - distance

\* The positions of the n nearest chunks among left, nearest first (chunks
\* at the same distance in insertion order).
RECURSIVE Nearest(_, _, _)
Nearest(index, left, n) ==
    IF n = 0 \/ left = {} THEN <<>>
    ELSE LET k == CHOOSE k \in left :
                     \A j \in left : \/ index[k] < index[j]
                                     \/ (index[k] = index[j] /\ k <= j)
         IN <<k>> \o Nearest(index, left \ {k}, n - 1)

\* collection.query of the vector store for one query vector: it raises
\* when the store fails and when n_results is not positive (the store
\* validates it); otherwise it returns the n_results nearest chunks,
\* nearest first, as one list per query vector (one empty list for an empty
\* collection).
CollectionQuery(index, n_results, fails) ==
    IF fails
    THEN [exc |-> "store_error", documents |-> <<>>, metadatas |-> <<>>,
          distances |-> <<>>]
    ELSE IF n_results <= 0
    THEN [exc |-> "n_results_error", documents |-> <<>>, metadatas |-> <<>>,
          distances |-> <<>>]
    ELSE LET ks == Nearest(index, DOMAIN index, n_results)
         IN [exc |-> NoExc,
             documents |-> <<ks>>,
             metadatas |-> <<ks>>,
             distances |-> <<[i \in 1..Len(ks) |-> index[ks[i]]]>>]

\* EmbeddingService.similarity_search: nothing in it catches an exception.
SimilaritySearch(env) ==
    IF env.encodeRaises THEN [exc |-> "model_error", search_results |-> <<>>]
    ELSE LET results ==
                 CollectionQuery(env.index, env.top_k, env.queryRaises)
         IN IF results.exc # NoExc
            THEN [exc |-> results.exc, search_results |-> <<>>]
            ELSE IF results.documents # <<>> /\ results.documents[1] # <<>>
            THEN [exc |-> NoExc,
                  search_results |->
                      [i \in 1..Len(results.documents[1]) |->
                          [text |-> results.documents[1][i],
                           metadata |-> results.metadatas[1][i],
                           similarity |->
                               Similarity(results.distances[1][i])]]]
            ELSE [exc |-> NoExc, search_results |-> <<>>]

\* Mutant of GenerateCompletion: a failure of the model call propagates.
GenerateCompletionPropagates(gen) ==
    IF gen.raises
    THEN [exc |-> "llm_error", keys |-> {}, text |-> "", error |-> None]
    ELSE [exc |-> NoExc, keys |-> {"text", "model"}, text |-> gen.text,
          error |-> None]

\* LLMService.generate_completion: every exception of the model call is
\* caught and returned as {"error": str(e)}.
GenerateCompletion(gen) ==
    IF gen.raises
    THEN [exc |-> NoExc, keys |-> {"error"}, text |-> "",
          error |-> "llm_error"]
    ELSE [exc |-> NoExc, keys |-> {"text", "model"}, text |-> gen.text,
          error |-> None]

\* No completion: generate_completion was not called.
NoCompletion == [exc |-> NoExc, keys |-> {}, text |-> "", error |-> None]

\* The fixed answer of rag_query when nothing was retrieved.
NoInformationAnswer == "no related information found"

\* Mutant of NoResultsResponse: the fixed response with confidence 1.
NoResultsResponseConfident ==
    [keys |-> {"answer", "sources", "confidence"},
     answer |-> NoInformationAnswer, sources |-> <<>>, confidence |-> 1,
     model_info |-> NoCompletion, error |-> None, generated |-> FALSE]

\* The result of rag_query: keys holds the keys of the dictionary, the
\* fields their values; generated records whether generate_completion was
\* called.
NoResultsResponse ==
    [keys |-> {"answer", "sources", "confidence"},
     answer |-> NoInformationAnswer, sources |-> <<>>, confidence |-> 0,
     model_info |-> NoCompletion, error |-> None, generated |-> FALSE]

\* rag_query's except clause: {"error": str(e)}.
ErrorResult(msg, generated) ==
    [keys |-> {"error"}, answer |-> "", sources |-> <<>>, confidence |-> 0,
     model_info |-> NoCompletion, error |-> msg, generated |-> generated]

\* Mutant of Confidence: the maximum similarity.
ConfidenceMax(search_results) ==
    CHOOSE c \in {search_results[i].similarity :
                      i \in 1..Len(search_results)} :
        \A i \in 1..Len(search_results) : c >= search_results[i].similarity

\* min([r["similarity"] for r in search_results])
Confidence(search_results) ==
    CHOOSE c \in {search_results[i].similarity :
                      i \in 1..Len(search_results)} :
        \A i \in 1..Len(search_results) : c <= search_results[i].similarity

\* LLMService.rag_query.
RagQuery(env) ==
    LET s == SimilaritySearch(env) IN
    IF s.exc # NoExc THEN ErrorResult(s.exc, FALSE)
    ELSE IF s.search_results = <<>> THEN NoResultsResponse
    ELSE LET completion == GenerateCompletion(env.gen) IN
         IF completion.exc # NoExc THEN ErrorResult(completion.exc, TRUE)
         ELSE [keys |-> {"answer", "sources", "confidence", "model_info"},
               answer |-> IF "text" \in completion.keys THEN completion.text
                          ELSE "",
               sources |-> s.search_results,
               confidence |-> Confidence(s.search_results),
               model_info |-> completion,
               error |-> None,
               generated |-> TRUE]

Indexes == UNION {[1..n -> 0..MaxDistance] : n \in 0..MaxIndex}

TopKs == 0..MaxTopK

\* The outcomes of the model call: it raises, or it returns a text.
Generations ==
    {[raises |-> TRUE, text |-> ""], [raises |-> FALSE, text |-> ""],
     [raises |-> FALSE, text |-> "answer"]}

SearchEnvs(gens) ==
    [index : Indexes, top_k : TopKs, encodeRaises : BOOLEAN,
     queryRaises : BOOLEAN, gen : gens]

Search ==
    /\ ext.op = "none"
    /\ \E env \in SearchEnvs({[raises |-> FALSE, text |-> ""]}) :
          ext' = [op |-> "search", env |-> env, out |-> SimilaritySearch(env)]
    /\ UNCHANGED <<media, tasks, collection>>

Rag ==
    /\ ext.op = "none"
    /\ \E env \in SearchEnvs(Generations) :
          ext' = [op |-> "rag", env |-> env, out |-> RagQuery(env)]
    /\ UNCHANGED <<media, tasks, collection>>

RagNext ==
    \/ Search
    \/ Rag

RagSpec == Init /\ [][RagNext]_vars

\* ------------------------------------------- indexing of one document
\* create_embeddings followed by store_embeddings for one document id, as
\* the background job and the embeddings endpoint call them, repeated on
\* the same collection. split_text is a call into the text splitter: the
\* chunks it returns are an input, and they include the whitespace-only
\* chunk that create_embeddings provides for.
ChunkTexts == {<<"a">>, <<"b">>, <<" ">>}

ChunkSeqs == UNION {[1..n -> ChunkTexts] : n \in 0..MaxChunks}

DocMetadata == [media_file_id |-> 1, media_type |-> "image"]

IndexDocument ==
    /\ ext.op \in {"none", "index"}
    /\ \E chunks \in ChunkSeqs :
          LET text == Join(<<>>, chunks)
              embeddings == CreateEmbeddingsOf(text, chunks, DocMetadata)
          IN \E r \in StoreEmbeddings(collection, embeddings, MediaDocId(1)) :
                /\ collection' = r.coll
                /\ ext' = [op |-> "index", chunks |-> chunks,
                           embeddings |-> embeddings, exc |-> r.exc,
                           before |-> collection]
    /\ UNCHANGED <<media, tasks>>

\* The metadata a caller hands to create_embeddings: none, the job's, or
\* fields of the caller's own, some named like the computed ones.
Metadatas ==
    {<<>>, DocMetadata, [chunk_index |-> 9, source |-> 1],
     [chunk_size |-> 9, original_length |-> 9]}

\* create_embeddings alone, for a text cut into the given chunks.
EmbedText ==
    /\ ext.op \in {"none", "embed"}
    /\ \E chunks \in ChunkSeqs, metadata \in Metadatas :
          LET text == Join(<<>>, chunks)
          IN ext' = [op |-> "embed", chunks |-> chunks, text |-> text,
                     metadata |-> metadata,
                     embeddings |->
                         CreateEmbeddingsOf(text, chunks, metadata)]
    /\ UNCHANGED <<media, tasks, collection>>

IndexNext ==
    \/ IndexDocument
    \/ EmbedText

IndexSpec == Init /\ [][IndexNext]_vars

\* ------------------------------------------------- upload and its answer
\* One upload request with the answer it gets; ext records the request, the
\* HTTP status and the status field of the body.
RequestSizes == {0, MAX_FILE_SIZE, MAX_FILE_SIZE + 1}

RequestExtensions ==
    SUPPORTED_IMAGE_FORMATS \cup SUPPORTED_VIDEO_FORMATS
        \cup SUPPORTED_AUDIO_FORMATS \cup {"txt", ""}

\* Where the try block of upload_media_file raises, if it does: saving the
\* file or the commit (nothing is inserted), or the refresh after the
\* commit (the record is inserted and no task is added).
UploadFailures == {"none", "commit", "refresh"}

UploadAnswer(size, file_extension, fails) ==
    IF UploadValidation(size, file_extension) # 200
    THEN UploadValidation(size, file_extension)
    ELSE IF fails # "none" THEN 500 ELSE 200

UploadRequest(t) ==
    /\ FreeSlot(t)
    /\ \E m \in MediaIds, size \in RequestSizes, e \in RequestExtensions,
          fails \in UploadFailures :
          LET code == UploadAnswer(size, e, fails)
              inserted == code = 200 \/ (code = 500 /\ fails = "refresh")
          IN /\ media[m].state = "absent"
             /\ \A k \in 1..(m - 1) : media[k].state # "absent"
             /\ media' = IF inserted
                         THEN [media EXCEPT ![m] =
                                  [state |-> "present",
                                   media_type |-> DetermineMediaType(e),
                                   row |-> NewRow]]
                         ELSE media
             /\ tasks' = IF code = 200
                         THEN [tasks EXCEPT ![t] = Queued(m)]
                         ELSE tasks
             /\ ext' = [op |-> "upload", size |-> size,
                        file_extension |-> e, code |-> code,
                        id |-> IF code = 200 THEN m ELSE 0,
                        status |-> IF code = 200 THEN PENDING ELSE None]
    /\ UNCHANGED collection

UploadNext ==
    \/ \E t \in TaskIds : UploadRequest(t)
    \/ \E t \in TaskIds : JobGet(t)
    \/ \E t \in TaskIds : JobBegin(t)

UploadSpec == Init /\ [][UploadNext]_vars

\* ------------------------------------ indexing and retrieval, one store
\* The embedding pipeline and the retrieval operations on one collection
\* beside an existing media record: the document of media file 1 is indexed
\* and re-indexed, and the collection is searched through
\* similarity_search, rag_query and the media search endpoint.
StoredRecord ==
    [state |-> "present", media_type |-> "image",
     row |-> [NewRow EXCEPT !.processing_status = COMPLETED,
                            !.extracted_text = <<"a">>]]

StoreInit ==
    /\ media = [m \in MediaIds |-> IF m = 1 THEN StoredRecord ELSE NoMedia]
    /\ tasks = [t \in 1..MaxTasks |-> New]
    /\ collection = <<>>
    /\ ext = [op |-> "none"]

\* The document of media file 1 is indexed as IndexDocument does; ext keeps
\* the outcome only.
StoreDocument ==
    /\ ext.op \in {"none", "index"}
    /\ \E chunks \in ChunkSeqs :
          LET text == Join(<<>>, chunks)
              embeddings == CreateEmbeddingsOf(text, chunks, DocMetadata)
          IN \E r \in StoreEmbeddings(collection, embeddings, MediaDocId(1)) :
                /\ collection' = r.coll
                /\ ext' = [op |-> "index", exc |-> r.exc]
    /\ UNCHANGED <<media, tasks>>

\* The stored ids in the order the positions of a query's index name them.
StoredSeq ==
    [k \in 1..Cardinality(DOMAIN collection) |->
        ChunkId(MediaDocId(1), k - 1)]

\* The distances a query vector may have to the stored chunks: each is
\* near or far.
StoredIndexes == [1..Cardinality(DOMAIN collection) -> {0, 1}]

\* Mutant of CollectionAfterQuery: a query evicts what it read.
CollectionAfterQueryEvicts(coll) == <<>>

\* collection.query reads: the collection after the call is the collection
\* before it.
CollectionAfterQuery(coll) == coll

\* The search results with the stored text and metadata of each position.
StoredResults(search_results) ==
    [i \in 1..Len(search_results) |->
        [text |-> collection[StoredSeq[search_results[i].text]].text,
         metadata |->
             collection[StoredSeq[search_results[i].metadata]].metadata,
         similarity |-> search_results[i].similarity]]

\* The queries put to the stored collection. A query follows an indexing
\* (ext.op), and an indexing an indexing: ext holds the last call only.
StoredEnvs(gens) ==
    {env \in [index : StoredIndexes, top_k : TopKs, encodeRaises : BOOLEAN,
              queryRaises : BOOLEAN, gen : gens] :
        ~(env.encodeRaises /\ env.queryRaises)}

StoredSearch ==
    /\ ext.op \in {"none", "index"}
    /\ \E env \in StoredEnvs({[raises |-> FALSE, text |-> ""]}) :
          LET s == SimilaritySearch(env)
          IN ext' = [op |-> "search", env |-> env, exc |-> s.exc,
                     out |-> StoredResults(s.search_results)]
    /\ collection' = CollectionAfterQuery(collection)
    /\ UNCHANGED <<media, tasks>>

StoredRag ==
    /\ ext.op \in {"none", "index"}
    /\ \E env \in StoredEnvs(Generations) :
          ext' = [op |-> "rag", env |-> env, out |-> RagQuery(env)]
    /\ collection' = CollectionAfterQuery(collection)
    /\ UNCHANGED <<media, tasks>>

\* The loop of search_media_content: a result is kept when its metadata
\* names a media file that db.get finds and the type filter admits.
Enriched(search_results, media_type) ==
    LET Keep(r) ==
            /\ "media_file_id" \in DOMAIN r.metadata
            /\ r.metadata.media_file_id \in MediaIds
            /\ media[r.metadata.media_file_id].state = "present"
            /\ \/ media_type = None
               \/ media[r.metadata.media_file_id].media_type = media_type
        kept == SelectSeq(search_results, Keep)
    IN [i \in 1..Len(kept) |->
           [media_file |-> kept[i].metadata.media_file_id,
            relevance |-> kept[i].similarity,
            matching_text |-> kept[i].text]]

\* search_media_content: any exception becomes HTTP 500.
MediaSearch ==
    /\ ext.op \in {"none", "index"}
    /\ \E env \in StoredEnvs({[raises |-> FALSE, text |-> ""]}),
          media_type \in {None, "image", "audio"} :
          LET s == SimilaritySearch(env)
          IN ext' = [op |-> "media_search", env |-> env,
                     media_type |-> media_type,
                     code |-> IF s.exc # NoExc THEN 500 ELSE 200,
                     results |->
                         Enriched(StoredResults(s.search_results),
                                  media_type)]
    /\ collection' = CollectionAfterQuery(collection)
    /\ UNCHANGED <<media, tasks>>

StoreNext ==
    \/ StoreDocument
    \/ StoredSearch
    \/ StoredRag
    \/ MediaSearch

StoreSpec == StoreInit /\ [][StoreNext]_vars

\* ------------------------------------------- the embeddings endpoint
\* POST /embeddings/create, repeated on one collection: the text is
\* embedded and stored under the caller's document id or, without one,
\* under the default id. ext records the request and the one before it.
MaxText == 2

Texts == UNION {[1..n -> {"a", "b"}] : n \in 0..MaxText}

\* The document_id parameter: absent (the empty sequence) or "doc_1".
DocumentIds == {<<>>, <<"doc", 1>>}

\* f"doc_{len(text)}"
DefaultDocId(text) == <<"doc", Len(text)>>

NoRequest == [text |-> <<>>, document_id |-> <<>>, ids |-> {}, code |-> 0]

IndexText ==
    /\ \E text \in Texts, document_id \in DocumentIds :
          LET embeddings == CreateEmbeddings(text, <<>>)
              doc_id == IF document_id # <<>> THEN document_id
                        ELSE DefaultDocId(text)
              ids == StoreIds(embeddings, doc_id)
          IN \E r \in StoreEmbeddings(collection, embeddings, doc_id) :
                /\ collection' = r.coll
                /\ ext' = [op |-> "index_text", text |-> text,
                           document_id |-> document_id,
                           ids |-> {ids[k] : k \in 1..Len(ids)},
                           code |-> IF r.exc = NoExc THEN 200 ELSE 500,
                           prev |-> IF ext.op = "index_text"
                                    THEN [text |-> ext.text,
                                          document_id |-> ext.document_id,
                                          ids |-> ext.ids,
                                          code |-> ext.code]
                                    ELSE NoRequest]
    /\ UNCHANGED <<media, tasks>>

TextNext == IndexText

TextSpec == Init /\ [][TextNext]_vars

\* ================================================================ claims
ActivePcs == {"queued", "begin", "process", "commit", "h_get", "h_commit"}

ActiveJobs(m) ==
    {t \in TaskIds : tasks[t].file_id = m /\ tasks[t].pc \in ActivePcs}

Status(m) == media[m].row.processing_status

\* C1: the persisted status of a record changes only along
\* PENDING->PROCESSING, PROCESSING->COMPLETED, PROCESSING->FAILED and, by a
\* reprocess request only, COMPLETED->PENDING and FAILED->PENDING.
C1_OnlyLifecycleTransitions ==
    [][\A m \in MediaIds :
          (media[m].state = "present"
           /\ media'[m].row.processing_status # Status(m))
          => \/ <<Status(m), media'[m].row.processing_status>> \in
                   {<<PENDING, PROCESSING>>, <<PROCESSING, COMPLETED>>,
                    <<PROCESSING, FAILED>>}
             \/ /\ <<Status(m), media'[m].row.processing_status>> \in
                      {<<COMPLETED, PENDING>>, <<FAILED, PENDING>>}
                /\ \E t \in TaskIds :
                      /\ tasks[t].pc = "rp_commit"
                      /\ tasks[t].file_id = m
                      /\ tasks'[t].pc = "queued"]_vars

\* C2: a reprocess request for a record whose status is PENDING or
\* PROCESSING (when the request loads it and when it commits) schedules no
\* job and leaves the record's status, error and text unchanged.
C2_ReprocessRejectedWhileActive ==
    [][\A t \in TaskIds :
          (/\ tasks[t].pc = "rp_commit"
           /\ tasks'[t].pc # "rp_commit"
           /\ media[tasks[t].file_id].state = "present"
           /\ tasks[t].snap.processing_status \in {PENDING, PROCESSING}
           /\ Status(tasks[t].file_id) \in {PENDING, PROCESSING})
          => /\ tasks'[t].pc # "queued"
             /\ media'[tasks[t].file_id].row = media[tasks[t].file_id].row
      ]_vars

\* C3: at every moment at most one extraction job is scheduled or running
\* for each media id.
C3_AtMostOneActiveJob ==
    \A m \in MediaIds : Cardinality(ActiveJobs(m)) <= 1

C5_FailedHasError ==
    \A m \in MediaIds :
        (media[m].state = "present" /\ Status(m) = FAILED)
        => media[m].row.processing_error # None

\* C6: failure handling never throws, and when the handler's own read and
\* commit succeed the record is FAILED with the error detail of the job.
C6_HandlerRecordsFailure ==
    [][\A t \in TaskIds :
          /\ tasks[t].pc \in {"h_get", "h_commit"}
             => tasks'[t].pc \in {"h_get", "h_commit", "done", "swallowed"}
          /\ (/\ tasks[t].pc = "h_commit"
              /\ tasks'[t].pc = "done"
              /\ media[tasks[t].file_id].state = "present")
             => /\ media'[tasks[t].file_id].row.processing_status = FAILED
                /\ media'[tasks[t].file_id].row.processing_error
                      = tasks[t].exc]_vars

\* C7: a job whose extraction succeeded and whose embedding hand-off raised
\* never persists COMPLETED, and (granted that its handler's own read and
\* commit succeed) ends with the record FAILED with the error detail.
C7_HandoffFailureRecorded ==
    [][\A t \in TaskIds :
          (tasks[t].handoff /\ tasks'[t] # tasks[t]
           /\ media[tasks[t].file_id].state = "present")
          => /\ media'[tasks[t].file_id].row.processing_status = COMPLETED
                => Status(tasks[t].file_id) = COMPLETED
             /\ tasks'[t].pc = "done"
                => /\ media'[tasks[t].file_id].row.processing_status = FAILED
                   /\ media'[tasks[t].file_id].row.processing_error
                         \in {"model_error", "store_error"}]_vars

\* C8: for every media kind, a job whose file cannot be opened or decoded
\* sets status FAILED with the error detail, never COMPLETED.
C8_UndecodableFails ==
    (ext.op = "extract" /\ ~ext.env.opens)
    => LET mem == JobResult(NewRow, ext.results)
       IN /\ mem.processing_status = FAILED
          /\ mem.processing_error # None

\* C9: if the media opens, no failure of an engine or of an auxiliary
\* analysis step makes process_media_file return an error result.
C9_OpenedNeverErrors ==
    (ext.op = "extract" /\ ext.env.opens) => "error" \notin ext.results.keys

\* C10: in the image path an OCR engine that raises contributes empty text
\* with confidence 0 and does not abort the extraction; the other engine's
\* result is computed and is selected when its confidence is higher.
C10_FailedEngineContributesZero ==
    /\ ext.op = "ocr" =>
          /\ ext.img.easy.raises =>
                /\ ext.results.easyocr.text = <<>>
                /\ ext.results.easyocr.confidence = 0
                /\ ~ext.img.tess.raises =>
                      /\ ext.results.tesseract.text = Strip(ext.img.tess.text)
                      /\ ext.results.tesseract.confidence = ext.img.tess.conf
                      /\ ext.img.tess.conf > 0 =>
                            /\ ext.results.text = Strip(ext.img.tess.text)
                            /\ ext.results.confidence = ext.img.tess.conf
          /\ ext.img.tess.raises =>
                /\ ext.results.tesseract.text = <<>>
                /\ ext.results.tesseract.confidence = 0
                /\ ~ext.img.easy.raises =>
                      /\ ext.results.easyocr.text = ext.img.easy.text
                      /\ ext.results.easyocr.confidence = ext.img.easy.conf
                      /\ ext.results.text = ext.img.easy.text
                      /\ ext.results.confidence = ext.img.easy.conf
          /\ (ext.img.easy.raises /\ ext.img.tess.raises) =>
                (ext.results.text = <<>> /\ ext.results.confidence = 0)
    /\ (/\ ext.op = "extract"
        /\ ext.media_type = "image"
        /\ ext.env.opens
        /\ ext.env.fails \cap {"objects", "quality", "scene"} = {})
       => /\ "error" \notin ext.results.keys
          /\ "ocr" \in ext.results.keys

\* Witness of C10: EasyOCR raised, Tesseract read a text with a confidence
\* above 0, and that text is the one selected.
C10_Witness ==
    /\ ext.op = "ocr"
    /\ ext.img.easy.raises
    /\ ~ext.img.tess.raises
    /\ ext.img.tess.conf > 0
    /\ ext.results.easyocr.confidence = 0
    /\ ext.results.text = <<"b">>

\* C11: the image path selects the text and the confidence of the engine
\* with the maximum confidence, and of EasyOCR (registered first) when the
\* two confidences are equal.
C11_SelectsMaxConfidenceFirstWins ==
    ext.op = "ocr" =>
        LET e == ext.results.easyocr
            t == ext.results.tesseract
        IN /\ e.confidence >= t.confidence
              => (ext.results.text = e.text
                  /\ ext.results.confidence = e.confidence)
           /\ e.confidence < t.confidence
              => (ext.results.text = t.text
                  /\ ext.results.confidence = t.confidence)

\* Witness of C11: both engines read, with equal confidences above 0 and
\* different texts, and EasyOCR's text is the one selected.
C11_Witness ==
    /\ ext.op = "ocr"
    /\ ~ext.img.easy.raises /\ ~ext.img.tess.raises
    /\ ext.img.easy.conf = ext.img.tess.conf
    /\ ext.img.easy.conf > 0
    /\ ext.results.easyocr.text = <<"a">>
    /\ ext.results.tesseract.text = <<"b">>
    /\ ext.results.text = <<"a">>

\* The text a video's frame contributes: the OCR selection of the frame.
C12_FrameText(img) == ExtractTextFromImage(img).text

\* The positions of the frames whose text is not blank, in ascending order.
C12_Kept(frames) == {i \in 1..Len(frames) : ~IsBlank(C12_FrameText(frames[i]))}

\* The k-th smallest element of a set of positions.
C12_Nth(S, k) == CHOOSE i \in S : Cardinality({j \in S : j < i}) = k - 1

RetrievalWorks ==
    /\ ~ext.env.encodeRaises
    /\ ~ext.env.queryRaises
    /\ ext.env.top_k >= 1

\* C13: when retrieval returns no chunks, rag_query answers the fixed "no
\* information found" response with no sources and confidence 0, and does
\* not call the generation.
C13_EmptyRetrievalFixedAnswer ==
    (ext.op = "rag" /\ RetrievalWorks /\ ext.env.index = <<>>)
    => /\ ext.out.keys = {"answer", "sources", "confidence"}
       /\ ext.out.answer = NoInformationAnswer
       /\ ext.out.sources = <<>>
       /\ ext.out.confidence = 0
       /\ ~ext.out.generated

\* Witness of C13: rag_query on an empty store, with a generation that
\* would have answered, returns the fixed answer.
C13_Witness ==
    /\ ext.op = "rag"
    /\ RetrievalWorks
    /\ ext.env.index = <<>>
    /\ ext.env.gen = [raises |-> FALSE, text |-> "answer"]
    /\ ext.out.answer = NoInformationAnswer
    /\ ext.out.sources = <<>>

\* C14: when retrieval returns at least one chunk, the sources of the RAG
\* answer are exactly the retrieved chunks with their similarities and the
\* confidence is the minimum similarity over them.
C14_ConfidenceIsMinSimilarity ==
    (ext.op = "rag" /\ RetrievalWorks /\ ext.env.index # <<>>)
    => /\ "sources" \in ext.out.keys
       /\ "confidence" \in ext.out.keys
       /\ ext.out.sources # <<>>
       /\ ext.out.sources = SimilaritySearch(ext.env).search_results
       /\ \E i \in 1..Len(ext.out.sources) :
             ext.out.confidence = ext.out.sources[i].similarity
       /\ \A i \in 1..Len(ext.out.sources) :
             ext.out.confidence <= ext.out.sources[i].similarity

\* Witness of C14: three sources of three different similarities, and the
\* confidence is the least of them.
C14_Witness ==
    /\ ext.op = "rag"
    /\ RetrievalWorks
    /\ ~ext.env.gen.raises
    /\ Len(ext.out.sources) = 3
    /\ ext.out.sources[1].similarity = 1
    /\ ext.out.sources[2].similarity = 0
    /\ ext.out.sources[3].similarity = 0 - 1
    /\ ext.out.confidence = 0 - 1

\* C15: when retrieval succeeds and the generation fails, rag_query returns
\* (its result is not the error result of an exception) and the result
\* holds the retrieved chunks with their similarities.
C15_GenerationFailureKeepsSources ==
    (/\ ext.op = "rag"
     /\ RetrievalWorks
     /\ ext.env.index # <<>>
     /\ ext.env.gen.raises)
    => /\ "sources" \in ext.out.keys
       /\ ext.out.sources = SimilaritySearch(ext.env).search_results
       /\ Len(ext.out.sources) >= 1
       /\ ext.out.generated

\* Witness of C15: two chunks retrieved, the generation failed, and the
\* result holds both chunks and the generation's error.
C15_Witness ==
    /\ ext.op = "rag"
    /\ RetrievalWorks
    /\ ext.env.gen.raises
    /\ Len(ext.out.sources) = 2
    /\ ext.out.sources[1].similarity > ext.out.sources[2].similarity
    /\ ext.out.model_info.error = "llm_error"

\* C16: every failure inside retrieval or RAG (embedding the query, querying
\* the store, generating) gives a result with an error field, and none
\* raises past similarity_search or rag_query.
C16_FailuresCarryErrorField ==
    /\ (ext.op = "search" /\ (ext.env.encodeRaises \/ ext.env.queryRaises))
       => ext.out.exc = NoExc
    /\ (/\ ext.op = "rag"
        /\ \/ ext.env.encodeRaises
           \/ ext.env.queryRaises
           \/ (ext.env.top_k >= 1 /\ ext.env.index # <<>>
               /\ ext.env.gen.raises))
       => "error" \in ext.out.keys

\* C17: similarity_search on a store without vectors returns an empty
\* sequence and does not raise, for every query and every top_k (the query
\* being embedded and the store answering).
C17_EmptyIndexReturnsEmpty ==
    (/\ ext.op = "search"
     /\ ext.env.index = <<>>
     /\ ~ext.env.encodeRaises
     /\ ~ext.env.queryRaises)
    => /\ ext.out.exc = NoExc
       /\ ext.out.search_results = <<>>

\* C18: similarity_search returns at most top_k results, in descending
\* order of similarity, each with the similarity 1 - distance of its chunk.
C18_TopKDescendingSimilarity ==
    (ext.op = "search" /\ ext.out.exc = NoExc)
    => LET rs == ext.out.search_results
       IN /\ Len(rs) <= ext.env.top_k
          /\ \A i \in 1..Len(rs) :
                /\ rs[i].text \in DOMAIN ext.env.index
                /\ rs[i].similarity = 1 - ext.env.index[rs[i].text]
          /\ \A i, j \in 1..Len(rs) :
                i < j => /\ rs[i].similarity >= rs[j].similarity
                         /\ rs[i].text # rs[j].text

\* Witness of C18: three chunks stored farthest first, top_k = 2: the two
\* nearest are returned, nearest first.
C18_Witness ==
    /\ ext.op = "search"
    /\ ext.out.exc = NoExc
    /\ ext.env.index = <<2, 1, 0>>
    /\ ext.env.top_k = 2
    /\ Len(ext.out.search_results) = 2
    /\ ext.out.search_results[1].text = 3
    /\ ext.out.search_results[1].similarity = 1
    /\ ext.out.search_results[2].text = 2

C20_StoreOverwritesById ==
    (ext.op = "index" /\ ext.exc = NoExc)
    => \A k \in 1..Len(ext.embeddings) :
          LET id == StoreIds(ext.embeddings, MediaDocId(1))[k]
          IN /\ id \in DOMAIN collection
             /\ collection[id].text = ext.embeddings[k].text
             /\ collection[id].metadata = ext.embeddings[k].metadata

\* C21: for an empty or whitespace-only text create_embeddings returns an
\* empty sequence without raising, and store_embeddings given the empty
\* sequence returns without writing to the vector store.
C21_BlankTextIsNoOp ==
    /\ (ext.op = "index" /\ IsBlank(Join(<<>>, ext.chunks)))
       => /\ ext.embeddings = <<>>
          /\ ext.exc = NoExc
          /\ collection = ext.before
    /\ (ext.op = "embed" /\ IsBlank(ext.text)) => ext.embeddings = <<>>

\* Witness of C21: a whitespace-only text was indexed into a collection
\* that holds a chunk already, and the collection is as it was.
C21_Witness ==
    /\ ext.op = "index"
    /\ ext.chunks = <<<<" ">>>>
    /\ ext.embeddings = <<>>
    /\ ext.before # <<>>
    /\ collection = ext.before

\* The positions of the chunks of a split that are not blank.
C22_Kept(chunks) == {i \in 1..Len(chunks) : ~IsBlank(chunks[i])}

\* C22: in the metadata of every embedding create_embeddings produces, the
\* caller's field overrides the computed field of the same key, and every
\* other computed field and caller's field is present unchanged.
C22_CallerMetadataOverrides ==
    ext.op = "embed" =>
        /\ Len(ext.embeddings) = Cardinality(C22_Kept(ext.chunks))
        /\ \A k \in 1..Len(ext.embeddings) :
              LET md == ext.embeddings[k].metadata
                  pos == CHOOSE i \in C22_Kept(ext.chunks) :
                            Cardinality({j \in C22_Kept(ext.chunks) : j < i})
                                = k - 1
                  computed == [chunk_index |-> pos - 1,
                               chunk_size |-> Len(ext.chunks[pos]),
                               original_length |-> Len(ext.text)]
              IN /\ DOMAIN md = DOMAIN ext.metadata \cup DOMAIN computed
                 /\ \A key \in DOMAIN ext.metadata :
                       md[key] = ext.metadata[key]
                 /\ \A key \in DOMAIN computed \ DOMAIN ext.metadata :
                       md[key] = computed[key]

\* Witness of C22: the caller supplied chunk_index 9; the embedding of the
\* first chunk carries chunk_index 9, the caller's source and the computed
\* chunk_size.
C22_Witness ==
    /\ ext.op = "embed"
    /\ ext.metadata = [chunk_index |-> 9, source |-> 1]
    /\ Len(ext.embeddings) = 2
    /\ ext.embeddings[1].metadata.chunk_index = 9
    /\ ext.embeddings[1].metadata.source = 1
    /\ ext.embeddings[1].metadata.chunk_size = 1
    /\ ext.embeddings[2].metadata.original_length = 2

\* The ids the vector store holds for a media record's document.
StoredIds(m) == {id \in DOMAIN collection : id[1] = MediaDocId(m)}

\* C23: after a media record is deleted, no chunk or vector stored under
\* its document identifier remains in the vector store.
C23_DeletePurgesChunks ==
    \A m \in MediaIds : media[m].state = "deleted" => StoredIds(m) = {}

\* A task's reprocess request commits and its job is scheduled.
C24_Commits(t) ==
    /\ tasks[t].pc = "rp_commit"
    /\ tasks'[t].pc = "queued"

\* C24: a reprocess request on an existing record in a terminal status
\* sets the status to PENDING, clears the error to null and schedules
\* exactly one job; on an absent record it schedules nothing.
C24_ReprocessResets ==
    [][\A t \in TaskIds :
          /\ (C24_Commits(t)
              /\ tasks[t].snap.processing_status \in Terminal)
             => /\ media'[tasks[t].file_id].row.processing_status = PENDING
                /\ media'[tasks[t].file_id].row.processing_error = None
                /\ tasks'[t] = Queued(tasks[t].file_id)
                /\ \A u \in TaskIds \ {t} : tasks'[u] = tasks[u]
          /\ (tasks[t].pc = "new" /\ tasks'[t].pc = "rp_commit")
             => media[tasks'[t].file_id].state = "present"
          /\ (tasks[t].pc = "new" /\ tasks'[t].pc = "queued")
             => media[tasks'[t].file_id].state = "absent"]_vars

\* A job's commit of status COMPLETED to an existing record succeeds.
C25_Completes(t) ==
    /\ tasks[t].pc = "commit"
    /\ tasks'[t].pc = "done"
    /\ tasks[t].mem.processing_status = COMPLETED
    /\ media[tasks[t].file_id].state = "present"

\* C25: whenever a job persists status COMPLETED, the same commit persists
\* the extracted text its extraction produced and metadata equal to its
\* extraction results.
C25_CompletedCommitCarriesResults ==
    [][\A t \in TaskIds :
          C25_Completes(t)
          => LET row == media'[tasks[t].file_id].row
             IN /\ row.processing_status = COMPLETED
                /\ row.extracted_text = tasks[t].mem.extracted_text
                /\ row.metadata = tasks[t].mem.metadata]_vars

\* C28: in every reachable state a record whose status is COMPLETED has a
\* null processing error.
C28_CompletedHasNoError ==
    \A m \in MediaIds :
        (media[m].state = "present"
         /\ media[m].row.processing_status = COMPLETED)
        => media[m].row.processing_error = None

\* The chunks create_embeddings cuts a record's extracted text into, each
\* with its index.
C29_ChunksOf(text) ==
    LET embeddings == IF text = NullText THEN <<>>
                      ELSE CreateEmbeddings(text, <<>>)
    IN {<<embeddings[k].metadata.chunk_index, embeddings[k].text>> :
            k \in 1..Len(embeddings)}

\* C29: once a job ends with status COMPLETED, the chunks stored under the
\* record's document identifier are exactly the chunks of the record's
\* current extracted text; no chunk of an earlier run remains.
C29_NoStaleChunks ==
    [][\A t \in TaskIds :
          C25_Completes(t)
          => LET m == tasks[t].file_id
             IN {<<id[2], collection'[id].text>> : id \in StoredIds(m)}
                    = C29_ChunksOf(media'[m].row.extracted_text)]_vars

\* The records and the tasks an upload step adds.
C27_Inserted == {m \in MediaIds : media'[m] # media[m]}
C27_Scheduled == {t \in TaskIds : tasks'[t] # tasks[t]}

\* C27: an upload over the maximum size or of an unsupported extension is
\* rejected with a validation error, creates no record and schedules no
\* job; an accepted upload creates exactly one record, in status PENDING,
\* schedules exactly one job, and is acknowledged with status PENDING while
\* that job has not started.
C27_UploadValidated ==
    [][(ext' # ext /\ ext'.op = "upload") =>
          /\ (ext'.size > MAX_FILE_SIZE
              \/ DetermineMediaType(ext'.file_extension) = None)
             => /\ ext'.code \in {400, 413}
                /\ C27_Inserted = {}
                /\ C27_Scheduled = {}
          /\ ext'.code = 200
             => /\ ext'.size <= MAX_FILE_SIZE
                /\ DetermineMediaType(ext'.file_extension) # None
                /\ C27_Inserted = {ext'.id}
                /\ media[ext'.id].state = "absent"
                /\ media'[ext'.id].state = "present"
                /\ media'[ext'.id].row.processing_status = PENDING
                /\ Cardinality(C27_Scheduled) = 1
                /\ \A t \in C27_Scheduled :
                      tasks[t].pc = "new" /\ tasks'[t] = Queued(ext'.id)
                /\ ext'.status = PENDING]_vars

\* Witness of C27: an mp4 of the maximum size was accepted and
\* acknowledged; its record is PENDING and its job is queued.
C27_Witness ==
    /\ ext.op = "upload"
    /\ ext.code = 200
    /\ ext.file_extension = "mp4"
    /\ ext.size = MAX_FILE_SIZE
    /\ media[ext.id].row.processing_status = PENDING
    /\ \E t \in TaskIds : tasks[t] = Queued(ext.id)

\* C26: create_embeddings and store_embeddings leave every media record
\* unchanged; similarity_search, rag_query and the media search endpoint
\* leave the vector store and every media record unchanged.
C26_RetrievalReadsOnly ==
    [][/\ media' = media
       /\ collection' # collection => ext'.op = "index"
       /\ ext'.op \in {"search", "rag", "media_search"}
          => collection' = collection]_vars

\* Witness of C26: the media search endpoint answered with a result from a
\* store that holds chunks, beside the media record.
C26_Witness ==
    /\ ext.op = "media_search"
    /\ ext.results # <<>>
    /\ collection # <<>>
    /\ media[1] = StoredRecord

\* C30: two index-text requests for different texts, made without an
\* explicit document id, are stored under different chunk ids.
C30_DefaultIdsDistinct ==
    (/\ ext.op = "index_text"
     /\ ext.code = 200 /\ ext.prev.code = 200
     /\ ext.document_id = <<>> /\ ext.prev.document_id = <<>>
     /\ ext.text # ext.prev.text)
    => ext.ids \cap ext.prev.ids = {}

====
